---- MODULE Spec2Model ----
(***************************************************************************)
(* Model of the cli-llm-chatbot repository: the command-line loop          *)
(* (cli.py), the single-file HTTP API (app.py) with its gateway            *)
(* (llm_client.py), and the modular HTTP API (app/api/routes/chat.py with  *)
(* app/services/llm.py).                                                   *)
(*                                                                         *)
(* Text is modelled as a sequence of pieces: a line typed at the CLI is a  *)
(* sequence of characters, every other text is a sequence of literal or    *)
(* opaque chunks.  Concatenation and f-string interpolation are \o.        *)
(***************************************************************************)
EXTENDS Integers, Sequences, FiniteSets, TLC

VARIABLES
    variant,      \* which program runs: "cli", "single" (app.py), "modular" (app/)
    api_key,      \* the configured credential (text); <<>> is the empty credential
    client,       \* modular services/llm.py: _client, "None" or "OpenAI"
    constructed,  \* number of OpenAI(...) handles constructed by get_openai_client
    pc,           \* cli.py: "input" (at input()), "done" (after break), "crashed"
                  \* (uncaught exception); the APIs stay at "serving"
    messages,     \* cli.py: the history list `messages`
    reads,        \* cli.py: number of input() calls made so far
    request,      \* the latest inbound HTTP request / the latest line typed
    response,     \* the HTTP response to the latest request
    gw_calls,     \* gateway invocations made for the latest request or turn
    threads       \* modular API under concurrent requests: per worker thread,
                  \* its position in call_llm / get_openai_client, the handle
                  \* get_openai_client returned to it, the provider requests
                  \* it issued for its current request and how the call ended

vars == <<variant, api_key, client, constructed, pc, messages, reads,
          request, response, gw_calls, threads>>

(***************************************************************************)
(* Bounds of the model.                                                    *)
(***************************************************************************)
MaxMsgs == 2     \* longest messages list of a /chat request
MaxReads == 3    \* number of lines the CLI user types
MaxThreads == 2  \* worker threads serving modular /chat requests concurrently

(***************************************************************************)
(* Text helpers.                                                           *)
(***************************************************************************)
\* Python `sub in s` for texts: sub occurs in s as a contiguous run.
Contains(s, sub) ==
    \E i \in 0..(Len(s) - Len(sub)) : SubSeq(s, i + 1, i + Len(sub)) = sub

Whitespace == {" ", "\t"}

\* str.strip(): remove leading and trailing whitespace characters.
RECURSIVE lstrip(_)
lstrip(s) ==
    IF s # <<>> /\ Head(s) \in Whitespace THEN lstrip(Tail(s)) ELSE s

RECURSIVE rstrip(_)
rstrip(s) ==
    IF s # <<>> /\ s[Len(s)] \in Whitespace
    THEN rstrip(SubSeq(s, 1, Len(s) - 1))
    ELSE s

strip_identity(s) == s

strip(s) == rstrip(lstrip(s))

\* str.lower() on the characters the model types.
lower_char(c) ==
    CASE c = "E" -> "e"
      [] c = "X" -> "x"
      [] c = "I" -> "i"
      [] c = "T" -> "t"
      [] c = "Q" -> "q"
      [] c = "U" -> "u"
      [] c = "H" -> "h"
      [] OTHER -> c

lower_identity(s) == s

lower(s) == [i \in 1..Len(s) |-> lower_char(s[i])]

\* list.pop(): the list without its last element.
pop_first(s) == Tail(s)

pop(s) == SubSeq(s, 1, Len(s) - 1)

(***************************************************************************)
(* The provider (external): what one chat.completions.create call can do.  *)
(***************************************************************************)
NoText == <<>>

\* An optional value: `some` tells whether it is present (not None).
NoneContent == [some |-> FALSE, text |-> NoText]
SomeContent(t) == [some |-> TRUE, text |-> t]
NoneMessage == [some |-> FALSE, content |-> NoneContent]
SomeMessage(c) == [some |-> TRUE, content |-> c]

ReplyTexts == { <<"hi there">>, <<"Hola...">> }
ProviderErrors == { <<"Incorrect API key provided">>, <<"Connection error.">> }

Responses ==
    { [choices |-> <<>>],
      [choices |-> << [message |-> NoneMessage] >>],
      [choices |-> << [message |-> SomeMessage(NoneContent)] >>] }
    \cup { [choices |-> << [message |-> SomeMessage(SomeContent(t))] >>] :
             t \in ReplyTexts }

\* The outcome of one outbound request: the provider SDK raises OpenAIError
\* with a message, or returns a response object.
Outcomes ==
    { [raises |-> TRUE, error |-> m, response |-> [choices |-> <<>>]] :
        m \in ProviderErrors }
    \cup { [raises |-> FALSE, error |-> NoText, response |-> r] : r \in Responses }

(***************************************************************************)
(* The gateway: llm_client.call_model and app/services/llm.call_llm.        *)
(* A gateway result is how the call ends: kind "return" with the reply in  *)
(* text, or kind = the type of the exception raised with its message in    *)
(* text; sent lists the message lists of the outbound provider requests    *)
(* the call issued, in order.                                              *)
(***************************************************************************)
Result(kind, text, sent) ==
    [kind |-> kind, text |-> text, sent |-> sent]

\* reply_text = response.choices[0].message.content; len(reply_text)
\* exc is the exception these two statements raise, "none" when they do not.
extract(resp) ==
    IF Len(resp.choices) = 0
    THEN [exc |-> "IndexError", text |-> NoText]
    ELSE IF ~resp.choices[1].message.some
    THEN [exc |-> "AttributeError", text |-> NoText]
    ELSE IF ~resp.choices[1].message.content.some
    THEN [exc |-> "TypeError", text |-> NoText]
    ELSE [exc |-> "none", text |-> resp.choices[1].message.content.text]

\* llm_client.call_model: fail fast on a missing credential; else one create
\* call, OpenAIError -> RuntimeError, (AttributeError, IndexError) ->
\* RuntimeError, any other exception propagates.
call_model_retry(msgs, key, outcome) ==
    IF key = NoText
    THEN Result("RuntimeError", <<"OpenAI API key is not configured.">>, <<>>)
    ELSE IF outcome.raises
    THEN Result("RuntimeError", <<"LLM request failed: ">> \o outcome.error,
                <<msgs, msgs>>)
    ELSE LET e == extract(outcome.response) IN
         IF e.exc \in {"AttributeError", "IndexError"}
         THEN Result("RuntimeError", <<"Unexpected response format from LLM.">>,
                     <<msgs>>)
         ELSE IF e.exc = "none"
         THEN Result("return", e.text, <<msgs>>)
         ELSE Result(e.exc, NoText, <<msgs>>)

call_model_generic_message(msgs, key, outcome) ==
    IF key = NoText
    THEN Result("RuntimeError", <<"OpenAI API key is not configured.">>, <<>>)
    ELSE IF outcome.raises
    THEN Result("RuntimeError", <<"LLM request failed">>, <<msgs>>)
    ELSE LET e == extract(outcome.response) IN
         IF e.exc \in {"AttributeError", "IndexError"}
         THEN Result("RuntimeError", <<"Unexpected response format from LLM.">>,
                     <<msgs>>)
         ELSE IF e.exc = "none"
         THEN Result("return", e.text, <<msgs>>)
         ELSE Result(e.exc, NoText, <<msgs>>)

call_model_no_key_check(msgs, key, outcome) ==
    IF outcome.raises
    THEN Result("RuntimeError", <<"LLM request failed: ">> \o outcome.error,
                <<msgs>>)
    ELSE LET e == extract(outcome.response) IN
         IF e.exc \in {"AttributeError", "IndexError"}
         THEN Result("RuntimeError", <<"Unexpected response format from LLM.">>,
                     <<msgs>>)
         ELSE IF e.exc = "none"
         THEN Result("return", e.text, <<msgs>>)
         ELSE Result(e.exc, NoText, <<msgs>>)

call_model(msgs, key, outcome) ==
    IF key = NoText
    THEN Result("RuntimeError", <<"OpenAI API key is not configured.">>, <<>>)
    ELSE IF outcome.raises
    THEN Result("RuntimeError", <<"LLM request failed: ">> \o outcome.error,
                <<msgs>>)
    ELSE LET e == extract(outcome.response) IN
         IF e.exc \in {"AttributeError", "IndexError"}
         THEN Result("RuntimeError", <<"Unexpected response format from LLM.">>,
                     <<msgs>>)
         ELSE IF e.exc = "none"
         THEN Result("return", e.text, <<msgs>>)
         ELSE Result(e.exc, NoText, <<msgs>>)

\* app/services/llm.get_openai_client: construct the handle on first use.
\* built tells whether this call constructed a handle.
get_openai_client_always_new(c) ==
    [client |-> "OpenAI", built |-> TRUE]

get_openai_client(c) ==
    IF c = "None"
    THEN [client |-> "OpenAI", built |-> TRUE]
    ELSE [client |-> c, built |-> FALSE]

\* app/services/llm.call_llm: get the handle (no credential check), one
\* create call, the same two translations; c is _client before the call.
call_llm(msgs, c, outcome) ==
    LET h == get_openai_client(c)
        r == IF outcome.raises
             THEN Result("RuntimeError",
                         <<"LLM request failed: ">> \o outcome.error, <<msgs>>)
             ELSE LET e == extract(outcome.response) IN
                  IF e.exc \in {"AttributeError", "IndexError"}
                  THEN Result("RuntimeError",
                              <<"Unexpected response format from LLM">>, <<msgs>>)
                  ELSE IF e.exc = "none"
                  THEN Result("return", e.text, <<msgs>>)
                  ELSE Result(e.exc, NoText, <<msgs>>)
    IN  [result |-> r, client |-> h.client, built |-> h.built]

(***************************************************************************)
(* HTTP boundary.  A Pydantic Message object carries its class; model_dump *)
(* turns it into the plain role/content record the gateway takes.          *)
(***************************************************************************)
Message(role, content) == [cls |-> "Message", role |-> role, content |-> content]

\* The Message objects the modelled requests are made of.
MessageObjects ==
    { Message("system", <<"Eres un asistente.">>),
      Message("user", <<"hello">>),
      Message("user", NoText),
      Message("assistant", <<"hi there">>) }

model_dump(m) == [role |-> m.role, content |-> m.content]

\* [msg.model_dump() for msg in request.messages]
dump_all_reversed(ms) == [i \in 1..Len(ms) |-> model_dump(ms[Len(ms) + 1 - i])]

dump_all(ms) == [i \in 1..Len(ms) |-> model_dump(ms[i])]

\* An HTTP response: kind names the body ("ChatResponse", "ColdEmailResponse",
\* "HTTPException", or "ServerError" for the framework's answer to an
\* exception no handler caught); text is the reply, the email or the detail;
\* sources is "null", or "absent" where the body has no such field.
\* version is the version field of a health body, "absent" elsewhere.
Response(status, kind, text, sources) ==
    [status |-> status, kind |-> kind, text |-> text, sources |-> sources,
     version |-> "absent"]

\* The body of a health answer: status "ok" and, where given, a version.
HealthBody(status, version) ==
    [status |-> 200, kind |-> "HealthResponse", text |-> <<status>>,
     sources |-> "absent", version |-> version]

\* app/config.py Settings.app_version (its default)
app_version == "0.1.0"

\* app.py health_check
health_check_by_key(key) ==
    IF key = NoText THEN HealthBody("error", "absent") ELSE HealthBody("ok", "absent")

health_check(key) == HealthBody("ok", "absent")

\* app/api/routes/health.py health_check; c is services/llm._client
routes_health_check(c) == HealthBody("ok", app_version)

NoResponse == Response(0, "none", NoText, "absent")
ServerError == Response(500, "ServerError", NoText, "absent")

\* One gateway invocation as the handlers see it.
Call(args, outcome, result) ==
    [args |-> args, outcome |-> outcome, result |-> result]

EmptyDetailSingle == <<"The 'messages' list cannot be empty.">>
EmptyDetailModular == <<"La lista 'messages' no puede estar vacía">>

\* app.py chat
chat_no_validation(msgs, key, outcome) ==
    LET messages_dict == dump_all(msgs)
        r == call_model(messages_dict, key, outcome)
        calls == << Call(messages_dict, outcome, r) >>
    IN  IF r.kind = "return"
        THEN [response |-> Response(200, "ChatResponse", r.text, "absent"),
              gw_calls |-> calls]
        ELSE IF r.kind = "RuntimeError"
        THEN [response |-> Response(500, "HTTPException", r.text, "absent"),
              gw_calls |-> calls]
        ELSE [response |-> ServerError, gw_calls |-> calls]

chat(msgs, key, outcome) ==
    IF msgs = <<>>
    THEN [response |-> Response(400, "HTTPException", EmptyDetailSingle, "absent"),
          gw_calls |-> <<>>]
    ELSE LET messages_dict == dump_all(msgs)
             r == call_model(messages_dict, key, outcome)
             calls == << Call(messages_dict, outcome, r) >>
         IN  IF r.kind = "return"
             THEN [response |-> Response(200, "ChatResponse", r.text, "absent"),
                   gw_calls |-> calls]
             ELSE IF r.kind = "RuntimeError"
             THEN [response |-> Response(500, "HTTPException", r.text, "absent"),
                   gw_calls |-> calls]
             ELSE [response |-> ServerError, gw_calls |-> calls]

\* app/api/routes/chat.py chat; c is services/llm._client before the request
routes_chat_generic_detail(msgs, c, outcome) ==
    IF msgs = <<>>
    THEN [response |-> Response(400, "HTTPException", EmptyDetailModular, "absent"),
          gw_calls |-> <<>>, client |-> c, built |-> FALSE]
    ELSE LET messages_dict == dump_all(msgs)
             h == call_llm(messages_dict, c, outcome)
             r == h.result
             calls == << Call(messages_dict, outcome, r) >>
         IN  IF r.kind = "return"
             THEN [response |-> Response(200, "ChatResponse", r.text, "null"),
                   gw_calls |-> calls, client |-> h.client, built |-> h.built]
             ELSE IF r.kind = "RuntimeError"
             THEN [response |->
                       Response(500, "HTTPException",
                                <<"Error al procesar el mensaje">>, "absent"),
                   gw_calls |-> calls, client |-> h.client, built |-> h.built]
             ELSE [response |-> ServerError,
                   gw_calls |-> calls, client |-> h.client, built |-> h.built]

routes_chat(msgs, c, outcome) ==
    IF msgs = <<>>
    THEN [response |-> Response(400, "HTTPException", EmptyDetailModular, "absent"),
          gw_calls |-> <<>>, client |-> c, built |-> FALSE]
    ELSE LET messages_dict == dump_all(msgs)
             h == call_llm(messages_dict, c, outcome)
             r == h.result
             calls == << Call(messages_dict, outcome, r) >>
         IN  IF r.kind = "return"
             THEN [response |-> Response(200, "ChatResponse", r.text, "null"),
                   gw_calls |-> calls, client |-> h.client, built |-> h.built]
             ELSE IF r.kind = "RuntimeError"
             THEN [response |->
                       Response(500, "HTTPException",
                                <<"Error al procesar el mensaje: ">> \o r.text,
                                "absent"),
                   gw_calls |-> calls, client |-> h.client, built |-> h.built]
             ELSE [response |-> ServerError,
                   gw_calls |-> calls, client |-> h.client, built |-> h.built]

(***************************************************************************)
(* app.py generate_cold_email: the prompt assembler and the handler.       *)
(***************************************************************************)
Tones == {"casual", "professional", "friendly"}
Languages == {"en", "es"}
\* The five free-text fields of the sample requests.
FieldSamples ==
    { [freelancer_profile |-> "Dev Python", client_business |-> "Panaderia",
       client_pain_point |-> "Sin web", offer |-> "Landing page",
       goal |-> "Agendar llamada"],
      [freelancer_profile |-> "x", client_business |-> "x",
       client_pain_point |-> "x", offer |-> "x", goal |-> "x"],
      [freelancer_profile |-> "", client_business |-> "Panaderia",
       client_pain_point |-> "Oferta: ", offer |-> "\n", goal |-> "x"] }

ColdEmailRequests ==
    { [freelancer_profile |-> s.freelancer_profile,
       client_business |-> s.client_business,
       client_pain_point |-> s.client_pain_point,
       offer |-> s.offer, goal |-> s.goal, tone |-> t, language |-> l] :
        s \in FieldSamples, t \in Tones, l \in Languages }

NoForm ==
    [freelancer_profile |-> "", client_business |-> "", client_pain_point |-> "",
     offer |-> "", goal |-> "", tone |-> "none", language |-> "none"]

system_prompt ==
    << "Eres un copywriter experto que escribe cold emails efectivos ",
       "para freelancers que quieren conseguir nuevos clientes. ",
       "Escribe emails claros, concisos que suenen humanos y respetuosos. ",
       "Siempre adáptate al idioma y tono solicitados. ",
       "No inventes datos sobre el freelancer o el cliente." >>

user_prompt_goal_is_offer(f) ==
    << "Perfil del freelancer: ", f.freelancer_profile, "\n",
       "Negocio del cliente: ", f.client_business, "\n",
       "Punto de dolor del cliente: ", f.client_pain_point, "\n",
       "Oferta: ", f.offer, "\n",
       "Objetivo del email: ", f.offer, "\n",
       "Tono: ", f.tone, "\n",
       "Idioma: ", f.language, "\n\n",
       "Escribe un cold email que el freelancer pueda enviar a este cliente. ",
       "Si el idioma es 'en', escribe en Inglés. Si es 'es', escribe en Español. ",
       "El email debe estar listo para copiar y pegar." >>

user_prompt_english_only(f) ==
    << "Perfil del freelancer: ", f.freelancer_profile, "\n",
       "Negocio del cliente: ", f.client_business, "\n",
       "Punto de dolor del cliente: ", f.client_pain_point, "\n",
       "Oferta: ", f.offer, "\n",
       "Objetivo del email: ", f.goal, "\n",
       "Tono: ", f.tone, "\n",
       "Idioma: ", "en", "\n\n",
       "Escribe un cold email que el freelancer pueda enviar a este cliente. ",
       "Si el idioma es 'en', escribe en Inglés. Si es 'es', escribe en Español. ",
       "El email debe estar listo para copiar y pegar." >>

user_prompt(f) ==
    << "Perfil del freelancer: ", f.freelancer_profile, "\n",
       "Negocio del cliente: ", f.client_business, "\n",
       "Punto de dolor del cliente: ", f.client_pain_point, "\n",
       "Oferta: ", f.offer, "\n",
       "Objetivo del email: ", f.goal, "\n",
       "Tono: ", f.tone, "\n",
       "Idioma: ", f.language, "\n\n",
       "Escribe un cold email que el freelancer pueda enviar a este cliente. ",
       "Si el idioma es 'en', escribe en Inglés. Si es 'es', escribe en Español. ",
       "El email debe estar listo para copiar y pegar." >>

generate_cold_email(f, key, outcome) ==
    LET msgs == << [role |-> "system", content |-> system_prompt],
                   [role |-> "user", content |-> user_prompt(f)] >>
        r == call_model(msgs, key, outcome)
        calls == << Call(msgs, outcome, r) >>
    IN  IF r.kind = "return"
        THEN [response |-> Response(200, "ColdEmailResponse", r.text, "absent"),
              gw_calls |-> calls]
        ELSE IF r.kind = "RuntimeError"
        THEN [response |-> Response(500, "HTTPException", r.text, "absent"),
              gw_calls |-> calls]
        ELSE [response |-> ServerError, gw_calls |-> calls]

(***************************************************************************)
(* cli.py main: one iteration of the `while True` loop.                    *)
(***************************************************************************)
SystemMessage ==
    [role |-> "system",
     content |-> << "Eres un asistente útil. Responde en español de forma clara ",
                    "y concisa, ",
                    "salvo que el usuario te pida explícitamente usar otro idioma." >>]

\* The lines the user may type, as character sequences.
Lines ==
    { <<>>,
      <<" ", "\t">>,
      <<"e", "x", "i", "t">>,
      <<" ", "E", "x", "I", "T", " ">>,
      <<"Q", "u", "i", "t">>,
      <<"h", "i">>,
      <<" ", "H", "i", " ">>,
      <<"e", "x", "i", "t", "s">> }

ExitWords == { <<"e", "x", "i", "t">>, <<"q", "u", "i", "t">> }

\* The loop body from input() to the next input(), break or uncaught
\* exception: history is `messages` before, line is what input() returned.
main_iteration_keeps_turn(history, line, key, outcome) ==
    LET user_input == strip(line) IN
    IF lower(user_input) \in ExitWords
    THEN [pc |-> "done", messages |-> history, gw_calls |-> <<>>]
    ELSE IF user_input = NoText
    THEN [pc |-> "input", messages |-> history, gw_calls |-> <<>>]
    ELSE LET appended == Append(history, [role |-> "user", content |-> user_input])
             r == call_model(appended, key, outcome)
             calls == << Call(appended, outcome, r) >>
         IN  IF r.kind = "RuntimeError"
             THEN [pc |-> "input", messages |-> appended, gw_calls |-> calls]
             ELSE IF r.kind = "return"
             THEN [pc |-> "input",
                   messages |-> Append(appended,
                                       [role |-> "assistant", content |-> r.text]),
                   gw_calls |-> calls]
             ELSE [pc |-> "crashed", messages |-> appended, gw_calls |-> calls]

main_iteration(history, line, key, outcome) ==
    LET user_input == strip(line) IN
    IF lower(user_input) \in ExitWords
    THEN [pc |-> "done", messages |-> history, gw_calls |-> <<>>]
    ELSE IF user_input = NoText
    THEN [pc |-> "input", messages |-> history, gw_calls |-> <<>>]
    ELSE LET appended == Append(history, [role |-> "user", content |-> user_input])
             r == call_model(appended, key, outcome)
             calls == << Call(appended, outcome, r) >>
         IN  IF r.kind = "RuntimeError"
             THEN [pc |-> "input", messages |-> pop(appended), gw_calls |-> calls]
             ELSE IF r.kind = "return"
             THEN [pc |-> "input",
                   messages |-> Append(appended,
                                       [role |-> "assistant", content |-> r.text]),
                   gw_calls |-> calls]
             ELSE [pc |-> "crashed", messages |-> appended, gw_calls |-> calls]

(***************************************************************************)
(* The state machine.                                                      *)
(***************************************************************************)
Credentials == { NoText, <<"sk-test">> }

Request(path, msgs, form, line) ==
    [path |-> path, messages |-> msgs, form |-> form, line |-> line]

NoRequest == Request("none", <<>>, NoForm, NoText)

\* The message lists a /chat request may carry, up to MaxMsgs messages.
ChatMessageLists ==
    UNION { [1..n -> MessageObjects] : n \in 0..MaxMsgs }

\* The worker threads of the modular API, and a thread between requests.
Threads == 1..MaxThreads

IdleThread == [pc |-> "idle", handle |-> "None", sent |-> <<>>, result |-> "none"]

\* After start-up: llm_client builds its handle at import, services/llm
\* leaves _client None until first use; cli.py starts from the system message.
Init ==
    /\ variant \in {"cli", "single", "modular"}
    /\ api_key \in Credentials
    /\ client = IF variant = "modular" THEN "None" ELSE "OpenAI"
    /\ constructed = IF variant = "modular" THEN 0 ELSE 1
    /\ pc = IF variant = "cli" THEN "input" ELSE "serving"
    /\ messages = IF variant = "cli" THEN << SystemMessage >> ELSE <<>>
    /\ reads = 0
    /\ request = NoRequest
    /\ response = NoResponse
    /\ gw_calls = <<>>
    /\ threads = [t \in Threads |-> IdleThread]

\* cli.py: the user types a line and the loop body runs.
CliTurn ==
    /\ variant = "cli"
    /\ pc = "input"
    /\ reads < MaxReads
    /\ \E line \in Lines, outcome \in Outcomes :
         LET it == main_iteration(messages, line, api_key, outcome) IN
         /\ reads' = reads + 1
         /\ request' = Request("stdin", <<>>, NoForm, line)
         /\ pc' = it.pc
         /\ messages' = it.messages
         /\ gw_calls' = it.gw_calls
    /\ UNCHANGED <<variant, api_key, client, constructed, response, threads>>

\* app.py: POST /chat
SingleChat ==
    /\ variant = "single"
    /\ \E msgs \in ChatMessageLists, outcome \in Outcomes :
         LET h == chat(msgs, api_key, outcome) IN
         /\ request' = Request("/chat", msgs, NoForm, NoText)
         /\ response' = h.response
         /\ gw_calls' = h.gw_calls
    /\ UNCHANGED <<variant, api_key, client, constructed, pc, messages, reads,
                   threads>>

\* app.py: POST /cold-email
SingleColdEmail ==
    /\ variant = "single"
    /\ \E form \in ColdEmailRequests, outcome \in Outcomes :
         LET h == generate_cold_email(form, api_key, outcome) IN
         /\ request' = Request("/cold-email", <<>>, form, NoText)
         /\ response' = h.response
         /\ gw_calls' = h.gw_calls
    /\ UNCHANGED <<variant, api_key, client, constructed, pc, messages, reads,
                   threads>>

\* app/api/routes/chat.py: POST /chat
ModularChat ==
    /\ variant = "modular"
    /\ \E msgs \in ChatMessageLists, outcome \in Outcomes :
         LET h == routes_chat(msgs, client, outcome) IN
         /\ request' = Request("/chat", msgs, NoForm, NoText)
         /\ response' = h.response
         /\ gw_calls' = h.gw_calls
         /\ client' = h.client
         /\ constructed' = IF h.built THEN constructed + 1 ELSE constructed
    /\ UNCHANGED <<variant, api_key, pc, messages, reads, threads>>

\* app.py: GET /health
SingleHealth ==
    /\ variant = "single"
    /\ request' = Request("/health", <<>>, NoForm, NoText)
    /\ response' = health_check(api_key)
    /\ gw_calls' = <<>>
    /\ UNCHANGED <<variant, api_key, client, constructed, pc, messages, reads,
                   threads>>

\* app/api/routes/health.py: GET /health
ModularHealth ==
    /\ variant = "modular"
    /\ request' = Request("/health", <<>>, NoForm, NoText)
    /\ response' = routes_health_check(client)
    /\ gw_calls' = <<>>
    /\ UNCHANGED <<variant, api_key, client, constructed, pc, messages, reads,
                   threads>>

Next ==
    \/ CliTurn
    \/ SingleChat
    \/ SingleColdEmail
    \/ SingleHealth
    \/ ModularChat
    \/ ModularHealth

Spec == Init /\ [][Next]_vars

(***************************************************************************)
(* The modular API under concurrent /chat requests: the framework runs the *)
(* handler of each request on a worker thread, and the threads interleave  *)
(* between the statements of call_llm and get_openai_client.  Handles are  *)
(* told apart by the order of their construction.                          *)
(***************************************************************************)
Handle(n) == IF n = 1 THEN "OpenAI" ELSE "OpenAI#" \o ToString(n)

\* The message list of the concurrent requests.
RaceMessages == << [role |-> "user", content |-> <<"hello">>] >>

\* get_openai_client, `if _client is None`: where the thread goes next.
race_check_never_constructs(c) == "return"

race_check(c) == IF c = "None" THEN "construct" ELSE "return"

\* get_openai_client, `_client = OpenAI(api_key=...)`: the handle stored when
\* n handles were constructed before.
race_construct(n) == Handle(n + 1)

SetThread(t, pcNew, handle, sent, result) ==
    threads' = [threads EXCEPT ![t] = [pc |-> pcNew, handle |-> handle,
                                       sent |-> sent, result |-> result]]

RaceFrame == UNCHANGED <<variant, api_key, pc, messages, reads, request,
                         response, gw_calls>>

\* A /chat request with messages reaches call_llm on thread t.
RaceRequest(t) ==
    /\ threads[t].pc = "idle"
    /\ SetThread(t, "check", "None", <<>>, "none")
    /\ UNCHANGED <<client, constructed>>
    /\ RaceFrame

\* `if _client is None:`
RaceCheck(t) ==
    /\ threads[t].pc = "check"
    /\ SetThread(t, race_check(client), "None", <<>>, "none")
    /\ UNCHANGED <<client, constructed>>
    /\ RaceFrame

\* `settings = get_settings(); _client = OpenAI(api_key=settings.openai_api_key)`
RaceConstruct(t) ==
    /\ threads[t].pc = "construct"
    /\ client' = race_construct(constructed)
    /\ constructed' = constructed + 1
    /\ SetThread(t, "return", "None", <<>>, "none")
    /\ RaceFrame

\* `return _client`
RaceReturn(t) ==
    /\ threads[t].pc = "return"
    /\ SetThread(t, "create", client, <<>>, "none")
    /\ UNCHANGED <<client, constructed>>
    /\ RaceFrame

\* `client.chat.completions.create(...)` and the rest of call_llm: the result
\* is that of call_llm on the handle the thread holds; on None the attribute
\* access raises AttributeError inside the try, so no request is made and
\* the call ends in RuntimeError.
RaceCreate(t) ==
    /\ threads[t].pc = "create"
    /\ \E outcome \in Outcomes :
         LET r == call_llm(RaceMessages, threads[t].handle, outcome).result IN
         SetThread(t, "idle", threads[t].handle,
                   IF threads[t].handle = "None" THEN <<>> ELSE r.sent,
                   IF threads[t].handle = "None" THEN "RuntimeError" ELSE r.kind)
    /\ UNCHANGED <<client, constructed>>
    /\ RaceFrame

InitRace == Init /\ variant = "modular"

NextRace ==
    \E t \in Threads :
        \/ RaceRequest(t)
        \/ RaceCheck(t)
        \/ RaceConstruct(t)
        \/ RaceReturn(t)
        \/ RaceCreate(t)

SpecRace == InitRace /\ [][NextRace]_vars

(***************************************************************************)
(* Properties.                                                             *)
(***************************************************************************)
\* The step handled an HTTP request or a CLI line (it is no stuttering step).
Handled == request'.path # "none" /\ (variant = "cli" => reads' = reads + 1)

\* The latest request invoked the gateway and the gateway raised RuntimeError.
GatewayFailed(calls) ==
    calls # <<>> /\ calls[Len(calls)].result.kind = "RuntimeError"

\* C1: a POST /chat with an empty messages list is answered 400 with the
\* variant's "list cannot be empty" detail, and the gateway is not invoked,
\* whatever the credential and whatever the provider would have done.
C1_EmptyChatRejected ==
    (request.path = "/chat" /\ request.messages = <<>>) =>
        /\ response.status = 400
        /\ response.kind = "HTTPException"
        /\ response.text = (IF variant = "single" THEN EmptyDetailSingle
                                                  ELSE EmptyDetailModular)
        /\ gw_calls = <<>>

C1_Witness ==
    /\ variant = "single"
    /\ api_key = NoText
    /\ request.path = "/chat"
    /\ request.messages = <<>>
    /\ response.status = 400

\* C2: a POST /chat with a non-empty messages list invokes the gateway once
\* with exactly the request's (role, content) sequence, same length and
\* order; when the gateway returns text t the answer is 200 with reply t
\* (and sources null in the modular variant).
C2_ChatPassThrough ==
    (request.path = "/chat" /\ request.messages # <<>>) =>
        /\ Len(gw_calls) = 1
        /\ Len(gw_calls[1].args) = Len(request.messages)
        /\ \A i \in 1..Len(request.messages) :
             /\ gw_calls[1].args[i].role = request.messages[i].role
             /\ gw_calls[1].args[i].content = request.messages[i].content
        /\ gw_calls[1].result.kind = "return" =>
             /\ response.status = 200
             /\ response.kind = "ChatResponse"
             /\ response.text = gw_calls[1].result.text
             /\ response.sources = (IF variant = "modular" THEN "null" ELSE "absent")

C2_Witness ==
    /\ variant = "modular"
    /\ request.path = "/chat"
    /\ Len(request.messages) = 2
    /\ request.messages[1] = Message("system", <<"Eres un asistente.">>)
    /\ request.messages[2] = Message("user", <<"hello">>)
    /\ response.status = 200
    /\ response.text = <<"hi there">>
    /\ response.sources = "null"

\* C3 as stated: when the gateway fails with RuntimeError during /chat or
\* /cold-email, the answer is 500 with a detail containing the gateway's
\* message, and the request changes no state that later requests see
\* (credential, provider client handle, number of handles constructed).
C3_FailedRequestChangesNothing ==
    [][(Handled /\ request'.path \in {"/chat", "/cold-email"}
          /\ GatewayFailed(gw_calls')) =>
        /\ response'.status = 500
        /\ response'.kind = "HTTPException"
        /\ Contains(response'.text, gw_calls'[1].result.text)
        /\ UNCHANGED <<api_key, client, constructed>>]_vars

\* C3 amended: as above, except that in the modular variant the failed
\* request that is the first to invoke the gateway leaves the lazily
\* constructed provider client handle stored; nothing else changes.
C3_FailedRequestKeepsOnlyHandle ==
    [][(Handled /\ request'.path \in {"/chat", "/cold-email"}
          /\ GatewayFailed(gw_calls')) =>
        /\ response'.status = 500
        /\ response'.kind = "HTTPException"
        /\ Contains(response'.text, gw_calls'[1].result.text)
        /\ api_key' = api_key
        /\ IF variant = "modular" /\ client = "None"
           THEN client' = "OpenAI" /\ constructed' = constructed + 1
           ELSE UNCHANGED <<client, constructed>>]_vars

C3_Witness ==
    /\ variant = "modular"
    /\ request.path = "/chat"
    /\ GatewayFailed(gw_calls)
    /\ gw_calls[1].outcome.raises
    /\ response.status = 500
    /\ response.text = <<"Error al procesar el mensaje: ", "LLM request failed: ">>
                          \o gw_calls[1].outcome.error
    /\ client = "OpenAI"

\* C4: when the gateway call of a CLI turn fails with RuntimeError, the
\* history after the handler equals the history before the user turn was
\* appended (the gateway saw that history plus the user turn), no assistant
\* turn is added, and the loop is back at input().
C4_CliFailureRestoresHistory ==
    [][(variant = "cli" /\ Handled /\ GatewayFailed(gw_calls')) =>
        /\ messages' = messages
        /\ Len(gw_calls'[1].args) = Len(messages) + 1
        /\ SubSeq(gw_calls'[1].args, 1, Len(messages)) = messages
        /\ gw_calls'[1].args[Len(messages) + 1].role = "user"
        /\ pc' = "input"]_vars

C4_Witness ==
    /\ variant = "cli"
    /\ pc = "input"
    /\ GatewayFailed(gw_calls)
    /\ gw_calls[1].outcome.raises
    /\ Len(messages) = 3
    /\ Len(gw_calls[1].args) = 4
    /\ messages[1] = SystemMessage

\* Specification-side reading of the typed line, independent of strip/lower.
Blank == {" ", "\t"}
ExitSpellings ==
    { << {"e", "E"}, {"x", "X"}, {"i", "I"}, {"t", "T"} >>,
      << {"q", "Q"}, {"u", "U"}, {"i", "I"}, {"t", "T"} >> }

IsBlankLine(line) == \A k \in 1..Len(line) : line[k] \in Blank

IsExitLine(line) ==
    \E i \in 1..Len(line), w \in ExitSpellings :
        /\ i + 3 <= Len(line)
        /\ \A k \in 1..(i - 1) : line[k] \in Blank
        /\ \A k \in (i + 4)..Len(line) : line[k] \in Blank
        /\ \A k \in 1..4 : line[i + k - 1] \in w[k]

\* C5: a line that after trimming is exit or quit in any letter case ends
\* the loop at once: nothing is appended to the history, the gateway is not
\* invoked, and once the loop has ended no further input is read.
C5_ExitTerminates ==
    [][/\ (variant = "cli" /\ Handled /\ IsExitLine(request'.line)) =>
            /\ pc' = "done"
            /\ messages' = messages
            /\ gw_calls' = <<>>
       /\ pc = "done" => reads' = reads]_vars

C5_Witness ==
    /\ variant = "cli"
    /\ pc = "done"
    /\ request.line = <<" ", "E", "x", "I", "T", " ">>
    /\ Len(messages) = 3
    /\ reads < MaxReads

\* C6: a line that is empty after trimming is ignored: the history is
\* unchanged, the gateway is not invoked, and the loop is back at input().
C6_BlankLineIgnored ==
    [][(variant = "cli" /\ Handled /\ IsBlankLine(request'.line)) =>
        /\ messages' = messages
        /\ gw_calls' = <<>>
        /\ pc' = "input"]_vars

C6_Witness ==
    /\ variant = "cli"
    /\ pc = "input"
    /\ request.line = <<" ", "\t">>
    /\ Len(messages) = 3
    /\ gw_calls = <<>>

\* Outbound provider requests issued for the latest request or turn.
RECURSIVE Outbound(_)
Outbound(calls) ==
    IF calls = <<>> THEN 0
    ELSE Len(Head(calls).result.sent) + Outbound(Tail(calls))

\* C7 as stated: every request or turn triggers at most one outbound
\* provider request, and every gateway invocation issues exactly one.
C7_ExactlyOneRequestPerInvocation ==
    /\ Outbound(gw_calls) <= 1
    /\ \A i \in 1..Len(gw_calls) : Len(gw_calls[i].result.sent) = 1

\* C7 amended: every request or turn triggers at most one outbound provider
\* request; a gateway invocation issues exactly one, also when it fails (no
\* retry), except that llm_client.call_model issues none when the
\* credential is empty; the one request carries the gateway's message list.
C7_AtMostOneRequestNoRetry ==
    /\ Outbound(gw_calls) <= 1
    /\ \A i \in 1..Len(gw_calls) :
         IF variant \in {"cli", "single"} /\ api_key = NoText
         THEN gw_calls[i].result.sent = <<>>
         ELSE gw_calls[i].result.sent = << gw_calls[i].args >>

C7_Witness ==
    /\ variant = "cli"
    /\ api_key # NoText
    /\ GatewayFailed(gw_calls)
    /\ gw_calls[1].outcome.raises
    /\ Len(gw_calls[1].result.sent) = 1

\* C8: when the outbound request fails at the provider (the SDK raises
\* OpenAIError), the gateway raises RuntimeError with a message containing
\* the provider's message; OpenAIError itself never reaches the caller.
C8_ProviderFailureTranslated ==
    \A i \in 1..Len(gw_calls) :
        /\ gw_calls[i].result.kind # "OpenAIError"
        /\ (gw_calls[i].result.sent # <<>> /\ gw_calls[i].outcome.raises) =>
             /\ gw_calls[i].result.kind = "RuntimeError"
             /\ Contains(gw_calls[i].result.text, gw_calls[i].outcome.error)

C8_Witness ==
    /\ variant = "single"
    /\ request.path = "/cold-email"
    /\ gw_calls # <<>>
    /\ gw_calls[1].result.sent # <<>>
    /\ gw_calls[1].outcome.raises
    /\ gw_calls[1].outcome.error = <<"Connection error.">>
    /\ gw_calls[1].result.kind = "RuntimeError"

\* The response has no first choice, or its first choice has no text content.
UnexpectedShape(resp) ==
    \/ Len(resp.choices) = 0
    \/ ~resp.choices[1].message.some
    \/ ~resp.choices[1].message.content.some

\* C9: when the provider request succeeds but the response has no first
\* choice, or its first choice has no text content, the gateway raises
\* RuntimeError with the "unexpected response format" message.
C9_UnexpectedShapeTranslated ==
    \A i \in 1..Len(gw_calls) :
        (/\ gw_calls[i].result.sent # <<>>
         /\ ~gw_calls[i].outcome.raises
         /\ UnexpectedShape(gw_calls[i].outcome.response)) =>
            /\ gw_calls[i].result.kind = "RuntimeError"
            /\ gw_calls[i].result.text \in
                 { <<"Unexpected response format from LLM.">>,
                   <<"Unexpected response format from LLM">> }

\* The pieces of a text.
Pieces(t) == { t[i] : i \in 1..Len(t) }

\* C10: a /cold-email request invokes the gateway exactly once with two
\* messages, the fixed system instruction and then a user instruction that
\* contains the five field values, the tone and the language; when the
\* gateway returns text t the answer is 200 with email t.
C10_ColdEmailTwoMessages ==
    request.path = "/cold-email" =>
        /\ Len(gw_calls) = 1
        /\ Len(gw_calls[1].args) = 2
        /\ gw_calls[1].args[1] = [role |-> "system", content |-> system_prompt]
        /\ gw_calls[1].args[2].role = "user"
        /\ { request.form.freelancer_profile, request.form.client_business,
             request.form.client_pain_point, request.form.offer,
             request.form.goal, request.form.tone, request.form.language }
              \subseteq Pieces(gw_calls[1].args[2].content)
        /\ gw_calls[1].result.kind = "return" =>
             /\ response.status = 200
             /\ response.kind = "ColdEmailResponse"
             /\ response.text = gw_calls[1].result.text

C10_Witness ==
    /\ request.path = "/cold-email"
    /\ request.form.goal = "Agendar llamada"
    /\ request.form.tone = "casual"
    /\ request.form.language = "es"
    /\ Len(gw_calls) = 1
    /\ response.status = 200
    /\ response.text = <<"Hola...">>

\* The sentence of the user instruction that directs the output language.
OutputDirective ==
    "Si el idioma es 'en', escribe en Inglés. Si es 'es', escribe en Español. "

C12_HealthAlwaysOk ==
    [][request'.path = "/health" =>
        /\ response'.status = 200
        /\ response'.kind = "HealthResponse"
        /\ response'.text = <<"ok">>
        /\ response'.version = (IF variant = "modular" THEN "0.1.0" ELSE "absent")
        /\ gw_calls' = <<>>
        /\ UNCHANGED <<api_key, client, constructed>>]_vars

C12_Witness ==
    /\ variant = "modular"
    /\ request.path = "/health"
    /\ client = "OpenAI"
    /\ response.text = <<"ok">>
    /\ response.version = "0.1.0"

\* C13: in the single-file variant with an empty credential, a /chat (with
\* messages) or /cold-email request invokes the gateway, which raises
\* RuntimeError before any provider request is made, and the handler answers
\* 500 with the gateway's message as detail.
C13_MissingCredentialFailsFast ==
    (/\ variant = "single"
     /\ api_key = NoText
     /\ \/ request.path = "/cold-email"
        \/ request.path = "/chat" /\ request.messages # <<>>) =>
        /\ Len(gw_calls) = 1
        /\ gw_calls[1].result.sent = <<>>
        /\ gw_calls[1].result.kind = "RuntimeError"
        /\ gw_calls[1].result.text = <<"OpenAI API key is not configured.">>
        /\ response.status = 500
        /\ response.kind = "HTTPException"
        /\ response.text = gw_calls[1].result.text

C13_Witness ==
    /\ variant = "single"
    /\ api_key = NoText
    /\ request.path = "/chat"
    /\ Len(request.messages) = 2
    /\ response.status = 500
    /\ response.text = <<"OpenAI API key is not configured.">>

\* C14: in the modular variant, with gateway invocations executed one after
\* another, the handle is constructed exactly once, by the first invocation;
\* every later invocation reuses it, and once stored it is never reset or
\* replaced.
C14_HandleConstructedOnce ==
    [][variant = "modular" =>
        /\ (client = "None") <=> (constructed = 0)
        /\ constructed' <= 1
        /\ IF client = "None"
           THEN IF request'.path = "/chat" /\ request'.messages # <<>>
                THEN client' = "OpenAI" /\ constructed' = 1
                ELSE UNCHANGED <<client, constructed>>
           ELSE UNCHANGED <<client, constructed>>]_vars

C14_Witness ==
    /\ variant = "modular"
    /\ client = "OpenAI"
    /\ constructed = 1
    /\ request.path = "/chat"
    /\ gw_calls # <<>>
    /\ gw_calls[1].result.kind = "return"

\* The CLI history invariant: the system message, then (user, assistant)
\* pairs.
WellFormedHistory(h) ==
    /\ Len(h) % 2 = 1
    /\ h[1] = SystemMessage
    /\ \A k \in 1..((Len(h) - 1) \div 2) :
         h[2 * k].role = "user" /\ h[2 * k + 1].role = "assistant"

\* C16: whenever the CLI waits for input the history is the system message
\* followed by (user, assistant) pairs; a successful turn appends exactly its
\* pair, a failed turn or an empty line leaves the history as it was, and the
\* gateway receives the history with the new user turn appended last.
C16_CliHistoryShape ==
    [][variant = "cli" =>
        /\ pc = "input" => WellFormedHistory(messages)
        /\ pc' = "input" => WellFormedHistory(messages')
        /\ (Handled /\ gw_calls' # <<>>) =>
             /\ Len(gw_calls'[1].args) = Len(messages) + 1
             /\ SubSeq(gw_calls'[1].args, 1, Len(messages)) = messages
             /\ gw_calls'[1].args[Len(messages) + 1].role = "user"
             /\ gw_calls'[1].args[Len(messages) + 1].content # NoText
             /\ Contains(request'.line,
                         gw_calls'[1].args[Len(messages) + 1].content)
        /\ (Handled /\ pc' = "input") =>
             IF gw_calls' # <<>> /\ gw_calls'[1].result.kind = "return"
             THEN messages' =
                    Append(gw_calls'[1].args,
                           [role |-> "assistant",
                            content |-> gw_calls'[1].result.text])
             ELSE messages' = messages]_vars

C16_Witness ==
    /\ variant = "cli"
    /\ pc = "input"
    /\ reads = 3
    /\ Len(messages) = 5
    /\ messages[2].role = "user"
    /\ messages[5].role = "assistant"
    /\ gw_calls # <<>>
    /\ gw_calls[1].result.kind = "return"

\* C17: every gateway invocation ends by returning a reply or by raising
\* RuntimeError, whatever the provider did; so the CLI never dies of an
\* uncaught exception, and a /chat or /cold-email request that reached the
\* gateway is answered 200 or with the handler's own 500 carrying a detail.
C17_GatewayTotal ==
    /\ \A i \in 1..Len(gw_calls) :
         gw_calls[i].result.kind \in {"return", "RuntimeError"}
    /\ pc # "crashed"
    /\ (request.path \in {"/chat", "/cold-email"} /\ gw_calls # <<>>) =>
         \/ response.status = 200
         \/ response.status = 500 /\ response.kind = "HTTPException"

\* C15: with concurrent first use, every request still gets a handle that
\* is not None and ends its call after exactly one provider request; at most
\* one handle is constructed per thread that saw _client unset; once a handle
\* is stored and no thread is left between the check and the assignment, the
\* stored handle never changes again and is the one later requests receive.
C15_RaceBenign ==
    [][/\ (client = "None") <=> (constructed = 0)
       /\ constructed <= MaxThreads
       /\ \A t \in Threads :
            /\ threads[t].pc = "create" => threads[t].handle # "None"
            /\ threads[t].result # "none" =>
                 /\ threads[t].pc = "idle"
                 /\ threads[t].handle # "None"
                 /\ threads[t].sent = << RaceMessages >>
                 /\ threads[t].result \in {"return", "RuntimeError", "TypeError"}
            /\ (threads[t].pc = "return" /\ threads'[t].pc = "create") =>
                 threads'[t].handle = client
       /\ (client # "None" /\ \A t \in Threads : threads[t].pc # "construct") =>
            UNCHANGED <<client, constructed>>]_vars

\* More than one handle was constructed, every thread finished its request,
\* and the handle stored last is the one kept.
C15_Witness ==
    /\ constructed = 2
    /\ client = Handle(2)
    /\ \A t \in Threads : threads[t].pc = "idle" /\ threads[t].result = "return"
    /\ \E t \in Threads : threads[t].handle = Handle(2)

====
